---- MODULE Spec2Model ----
(***************************************************************************)
(* djangocms_url_manager/forms.py: UrlForm, UrlOverrideForm, HtmlLinkForm. *)
(*                                                                         *)
(* State: the persisted Url, UrlOverride and UrlGrouper rows, and for each *)
(* request in flight the form it is processing: the bound instance, the    *)
(* cleaned data, the accumulated errors and a raised exception if any.     *)
(* A request runs full_clean (field cleaning, clean(), instance            *)
(* construction) as one step that reads the database, and save() as a      *)
(* later step that writes it.                                              *)
(***************************************************************************)
EXTENDS Integers, Sequences, FiniteSets, TLC

\* Bound on the number of Url rows (and of UrlOverride rows) ever created.
MaxUrls == 2

VARIABLES
    urls,       \* sequence of saved Url rows; the primary key is the index
    overrides,  \* sequence of saved UrlOverride rows
    groupers,   \* number of UrlGrouper rows created; ids are 1..groupers
    pc,         \* per request: "idle", "cleaned" (after is_valid), "saved"
    form        \* per request: the form being processed

vars == <<urls, overrides, groupers, pc, form>>

Procs == {"p1", "p2"}

(***************************************************************************)
(* Values.  None of an integer-valued attribute is 0, a key absent from    *)
(* cleaned_data (data.get(k) is None, data[k] raises KeyError) is Absent,  *)
(* a key absent from the submitted data is Missing.                        *)
(***************************************************************************)
None == 0
NoContentType == "None"
Absent == "<absent>"
Missing == "<missing>"
NoException == "none"

Sites == {1, 2}

\* models.BASIC_TYPE_CHOICES keys; the same names are form fields of Meta.fields
BasicTypes == {"manual_url", "relative_path", "anchor", "mailto", "phone"}

\* dict(BASIC_TYPE_CHOICES).keys(), in order
BasicTypeOrder == <<"manual_url", "relative_path", "anchor", "mailto", "phone">>

\* ids of the content types of supported_models(): the non-basic url_type choices
ContentTypeIds == {"1", "2", "3"}

UrlTypeChoices == ContentTypeIds \cup BasicTypes

\* how the model class of a content type can be scoped to a site
SiteScoping(ct) ==
    CASE ct = "1" -> "on_site"   \* hasattr(model.objects, "on_site")
      [] ct = "2" -> "site"      \* hasattr(model, "site")
      [] OTHER    -> "none"

NoObject == [content_type |-> Absent, pk |-> 0, site |-> None]

\* the rows of the supported models (they are not changed by these forms)
Objects ==
    { [content_type |-> "1", pk |-> 1, site |-> 1],
      [content_type |-> "2", pk |-> 2, site |-> 2],
      [content_type |-> "3", pk |-> 1, site |-> None] }

\* a cleaned_data value that is absent, a string, or a model instance
CoAbsent == [kind |-> "absent", str |-> Absent, obj |-> NoObject, id |-> 0]
CoStr(s) == [kind |-> "str", str |-> s, obj |-> NoObject, id |-> 0]
CoInstance(o) == [kind |-> "instance", str |-> Absent, obj |-> o, id |-> 0]
CoGrouper(g) == [kind |-> "instance", str |-> Absent, obj |-> NoObject, id |-> g]

\* int(value): the strings that parse as an integer, and their value
IsInt(s) == s \in {"1", "2", "3", "9"}
ToInt(s) ==
    CASE s = "1" -> 1
      [] s = "2" -> 2
      [] s = "3" -> 3
      [] s = "9" -> 9
      [] OTHER   -> 0

Err(field, msg) == [field |-> field, msg |-> msg, ct |-> "", site |-> None]

MsgRequired == "Field is required"
MsgExists == "Url with this object already exists"
MsgNoObject == "Object does not exist in a given content type id: {} and site: {}"
MsgAnchor == "Do not include a preceding # symbol."
MsgSite == "Overridden site must be different from the original."
MsgInvalid == "Invalid value"
MsgNoGrouper == "Url does not exist"
MsgFieldRequired == "This field is required."
MsgChoice == "Select a valid choice."


(***************************************************************************)
(* Model instances and forms.                                              *)
(***************************************************************************)
\* Url() / UrlOverride(): an unsaved instance with every field at its default
NewInstance(model) ==
    [ model |-> model, pk |-> None, url_grouper |-> None, site |-> None,
      manual_url |-> "", relative_path |-> "", anchor |-> "", mailto |-> "",
      phone |-> "", content_type |-> NoContentType, object_id |-> None,
      url |-> None ]

\* the fields of each form class: Meta.fields plus the declared fields
FormFields(kind) ==
    CASE kind = "UrlForm" ->
           {"internal_name", "url_type", "site", "content_object"} \cup BasicTypes
      [] kind = "UrlOverrideForm" ->
           {"url", "internal_name", "url_type", "site", "content_object"}
               \cup BasicTypes
      [] OTHER ->
           {"site", "url_grouper", "label", "template", "target", "attributes"}

\* cleaned_data before any field is cleaned
EmptyData ==
    [ url_type |-> Absent, site |-> None, content_object |-> CoAbsent,
      manual_url |-> Absent, relative_path |-> Absent, anchor |-> Absent,
      mailto |-> Absent, phone |-> Absent, url |-> None,
      url_grouper |-> CoAbsent ]

AbsentValue(field) ==
    CASE field \in {"content_object", "url_grouper"} -> CoAbsent
      [] field \in {"site", "url"} -> None
      [] OTHER -> Absent

\* self.data of a form that is bound to nothing
NoData ==
    [ url_type |-> Missing, site |-> None, content_object |-> "",
      manual_url |-> "", relative_path |-> "", anchor |-> "", mailto |-> "",
      phone |-> "", url |-> None, url_grouper |-> "" ]

\* a form: its class, its instance, the initial url_type, the submitted data
\* (self.data), cleaned_data, the errors and the exception raised, if any
NoForm ==
    [ kind |-> "none", instance |-> NewInstance("none"), initial |-> Absent,
      sub |-> NoData, data |-> EmptyData, errors |-> {}, exc |-> NoException ]

HasError(errors, field) == \E e \in errors : e.field = field

\* forms.Form.add_error(field, error): an unknown field raises ValueError; else
\* the error is recorded and the field is removed from cleaned_data
AddError(f, e) ==
    IF e.field \notin FormFields(f.kind)
    THEN [f EXCEPT !.exc = "ValueError"]
    ELSE [f EXCEPT !.errors = @ \cup {e},
                   !.data = IF e.field \in DOMAIN f.data
                            THEN [@ EXCEPT ![e.field] = AbsentValue(e.field)]
                            ELSE @]

IsValid(f) == f.errors = {} /\ f.exc = NoException

\* UrlForm.__init__: the initial url_type of the form, from its instance
InitialUrlType(instance) ==
    LET set == {i \in 1..Len(BasicTypeOrder) : instance[BasicTypeOrder[i]] # ""}
    IN  IF instance.content_type # NoContentType THEN instance.content_type
        ELSE IF set = {} THEN "relative_path"
        ELSE BasicTypeOrder[CHOOSE i \in set : \A j \in set : i <= j]


(***************************************************************************)
(* Field cleaning: what super().clean() returns, and the field errors.     *)
(*   sub is the submitted data: url_type (Missing when the key is not      *)
(*   submitted), site and url (None when empty), content_object, the five  *)
(*   basic fields and url_grouper (strings, "" when empty).                *)
(***************************************************************************)
\* anchor[0] == "#", over the anchor values that are submitted
StartsWithHash(anchor) == anchor \in {"#", "#top"}

\* UrlForm.clean_anchor
clean_anchor(f) ==
    LET anchor == f.data.anchor IN
    IF anchor \notin {"", Absent} /\ StartsWithHash(anchor)
    THEN [AddError(f, Err("anchor", MsgAnchor)) EXCEPT !.data.anchor = anchor]
    ELSE f

\* the declared and model fields of UrlForm cleaned one by one
UrlFormFields(f, sub, rows) ==
    LET f1 == IF sub.url_type \in UrlTypeChoices
              THEN [f EXCEPT !.data.url_type = sub.url_type]
              ELSE AddError(f, Err("url_type",
                       IF sub.url_type \in {Missing, ""} THEN MsgFieldRequired
                                                        ELSE MsgChoice))
        f2 == IF sub.site \in Sites
              THEN [f1 EXCEPT !.data.site = sub.site]
              ELSE AddError(f1, Err("site", MsgFieldRequired))
        f3 == [f2 EXCEPT !.data.content_object = CoStr(sub.content_object),
                         !.data.manual_url = sub.manual_url,
                         !.data.relative_path = sub.relative_path,
                         !.data.anchor = sub.anchor,
                         !.data.mailto = sub.mailto,
                         !.data.phone = sub.phone]
        f4 == clean_anchor(f3)
    IN  IF f.kind # "UrlOverrideForm" THEN f4
        ELSE IF sub.url \in 1..Len(rows)
             THEN [f4 EXCEPT !.data.url = sub.url]
             ELSE AddError(f4, Err("url", MsgFieldRequired))


(***************************************************************************)
(* UrlForm.clean                                                           *)
(***************************************************************************)
\* model.objects.all(), scoped by on_site(site) or filter(site=site) if the
\* model supports it
content_object_qs(content_type, site) ==
    LET all == {o \in Objects : o.content_type = content_type} IN
    CASE SiteScoping(content_type) = "on_site" -> {o \in all : o.site = site}
      [] SiteScoping(content_type) = "site"    -> {o \in all : o.site = site}
      [] OTHER                                 -> all

\* ContentType.objects.get_for_id(url_type) then content_object_qs.get(pk=...):
\* the object found, or the exception raised (an integer primary key column
\* raises ValueError for a value that is not a number)
LookupOutcome(url_type, site, content_object) ==
    IF url_type = Absent THEN "DoesNotExist"
    ELSE IF ~IsInt(content_object) THEN "ValueError"
    ELSE IF \E o \in content_object_qs(url_type, site) :
                o.pk = ToInt(content_object)
         THEN "found"
         ELSE "DoesNotExist"

LookupObject(url_type, site, content_object) ==
    CHOOSE o \in content_object_qs(url_type, site) : o.pk = ToInt(content_object)

\* QuerySet.exclude(url_grouper=value): value None excludes the rows whose
\* url_grouper is null
Excluded(row, url_grouper) ==
    IF url_grouper = None THEN row.url_grouper = None
    ELSE row.url_grouper = url_grouper

\* UrlExists with filter(url_grouper=...) in place of exclude(url_grouper=...)
UrlExistsFiltered(rows, content_type, object_id, url_grouper) ==
    \E i \in 1..Len(rows) :
        /\ rows[i].content_type = content_type
        /\ rows[i].object_id = object_id
        /\ Excluded(rows[i], url_grouper)

\* Url._base_manager.filter(content_type=..., object_id=...)
\*     .exclude(url_grouper=url_grouper).exists()
UrlExists(rows, content_type, object_id, url_grouper) ==
    \E i \in 1..Len(rows) :
        /\ rows[i].content_type = content_type
        /\ rows[i].object_id = object_id
        /\ ~Excluded(rows[i], url_grouper)

\* data.get("url_grouper"): url_grouper is no field of UrlForm.Meta.fields, so
\* cleaned_data never holds it
CleanedUrlGrouper(data) ==
    IF data.url_grouper.kind = "instance" THEN data.url_grouper.id ELSE None

\* BlankOthers with the blanking loop left out
BlankNone(data, url_type) == data

\* the loop that blanks every basic field except the selected one
BlankOthers(data, url_type) ==
    [k \in DOMAIN data |->
        IF k \in BasicTypes /\ k # url_type THEN "" ELSE data[k]]

\* the branch of clean() for a non-basic url_type with a content_object
CleanContentObject(f, sub, rows) ==
    LET url_type == f.data.url_type
        content_object == f.data.content_object.str
        site == f.data.site
        outcome == LookupOutcome(url_type, site, content_object)
    IN  CASE outcome = "found" ->
               LET f2 == IF f.data.url = None
                            /\ UrlExists(rows, url_type, ToInt(content_object),
                                         CleanedUrlGrouper(f.data))
                         THEN AddError(f, Err("content_object", MsgExists))
                         ELSE f
               IN  [f2 EXCEPT !.data.content_object =
                       CoInstance(LookupObject(url_type, site, content_object))]
          [] outcome = "DoesNotExist" ->
               IF sub.url_type = Missing
               THEN [f EXCEPT !.exc = "KeyError"]   \* self.data["url_type"]
               ELSE AddError(f, [field |-> "content_object", msg |-> MsgNoObject,
                                 ct |-> sub.url_type, site |-> site])
          [] OTHER -> [f EXCEPT !.exc = outcome]

\* RequiredMissing with the test of self.errors inverted
RequiredMissingInverted(f, url_type) ==
    HasError(f.errors, url_type) /\ f.data[url_type] = ""

\* "url_type not in self.errors and not data[url_type]"
RequiredMissing(f, url_type) ==
    ~HasError(f.errors, url_type) /\ f.data[url_type] = ""

UrlForm_clean(f0, sub, rows) ==
    LET url_type == f0.data.url_type
        content_object == f0.data.content_object.str
        is_basic_type == url_type \in BasicTypes
        f == [f0 EXCEPT !.data = BlankOthers(f0.data, url_type)]
    IN  IF is_basic_type
        THEN IF RequiredMissing(f, url_type)
             THEN AddError(f, Err(url_type, MsgRequired))
             ELSE f
        ELSE IF content_object # ""
             THEN CleanContentObject(f, sub, rows)
             ELSE AddError(f, Err("content_object", MsgRequired))

(***************************************************************************)
(* UrlOverrideForm.clean                                                   *)
(***************************************************************************)
UrlOverrideForm_clean(f0, sub, rows) ==
    LET f == UrlForm_clean(f0, sub, rows)
        url == f.data.url
        site == f.data.site
    IN  IF f.exc # NoException THEN f
        ELSE IF url # None /\ rows[url].site = site
             THEN AddError(f, Err("site", MsgSite))
             ELSE f

\* ModelForm._post_clean: the instance takes the cleaned value of every model
\* field of the form that cleaned_data holds
construct_instance(f) ==
    IF f.exc # NoException THEN f
    ELSE [f EXCEPT !.instance =
            [k \in DOMAIN @ |->
                IF k \in BasicTypes /\ f.data[k] # Absent THEN f.data[k]
                ELSE IF k = "site" /\ f.data.site # None THEN f.data.site
                ELSE IF k = "url" /\ f.kind = "UrlOverrideForm"
                        /\ f.data.url # None THEN f.data.url
                ELSE f.instance[k]]]

\* form.is_valid() of a UrlForm or UrlOverrideForm bound to sub and instance
UrlForm_full_clean(kind, instance, sub, rows) ==
    LET f0 == [NoForm EXCEPT !.kind = kind, !.instance = instance,
                             !.initial = InitialUrlType(instance), !.sub = sub]
        f1 == UrlFormFields(f0, sub, rows)
        f2 == IF kind = "UrlOverrideForm"
              THEN UrlOverrideForm_clean(f1, sub, rows)
              ELSE UrlForm_clean(f1, sub, rows)
    IN  construct_instance(f2)


(***************************************************************************)
(* HtmlLinkForm.clean                                                      *)
(***************************************************************************)
\* the fields of HtmlLinkForm the model follows: url_grouper is a required
\* CharField, so an empty value is an error and is absent from cleaned_data
HtmlLinkFormFields(f, sub) ==
    IF sub.url_grouper = ""
    THEN AddError(f, Err("url_grouper", MsgFieldRequired))
    ELSE [f EXCEPT !.data.url_grouper = CoStr(sub.url_grouper)]

HtmlLinkForm_clean(f, ngroupers) ==
    LET value == f.data.url_grouper IN
    IF value.kind = "absent" THEN [f EXCEPT !.exc = "KeyError"]
    ELSE IF ~IsInt(value.str) THEN AddError(f, Err("url", MsgInvalid))
    ELSE IF ToInt(value.str) \notin 1..ngroupers
         THEN AddError(f, Err("url", MsgNoGrouper))
         ELSE [f EXCEPT !.data.url_grouper = CoGrouper(ToInt(value.str))]

HtmlLinkForm_full_clean(sub, ngroupers) ==
    LET f0 == [NoForm EXCEPT !.kind = "HtmlLinkForm", !.sub = sub,
                             !.instance = NewInstance("LinkPlugin")]
        f1 == HtmlLinkForm_clean(HtmlLinkFormFields(f0, sub), ngroupers)
    IN  IF f1.exc = NoException /\ f1.data.url_grouper.kind = "instance"
        THEN [f1 EXCEPT !.instance.url_grouper = f1.data.url_grouper.id]
        ELSE f1

(***************************************************************************)
(* UrlForm.save                                                            *)
(***************************************************************************)
\* instance.content_object = value, through the generic foreign key
SetContentObject(instance, value) ==
    IF value.kind = "instance"
    THEN [instance EXCEPT !.content_type = value.obj.content_type,
                          !.object_id = value.obj.pk]
    ELSE [instance EXCEPT !.content_type = NoContentType, !.object_id = None]

\* NeedsGrouper without the test that the instance has no grouper yet
NeedsGrouperAlways(url) == url.model = "Url"

\* whether create_grouper creates a UrlGrouper for url
NeedsGrouper(url) == url.model = "Url" /\ url.url_grouper = None

\* UrlForm.create_grouper, given the id UrlGrouper.objects.create() returns
create_grouper(url, new_id) ==
    IF NeedsGrouper(url) THEN [url EXCEPT !.url_grouper = new_id] ELSE url

\* the instance UrlForm.save returns, before url.save()
SavedInstance(f, new_id) ==
    LET url_type == f.data.url_type
        is_basic_type == url_type \in BasicTypes
        url == IF is_basic_type
               THEN SetContentObject(f.instance, CoAbsent)
               ELSE SetContentObject(f.instance, f.data.content_object)
    IN  create_grouper(url, new_id)

\* Model.save(): insert a row with the next primary key, or update the row
SaveRow(rows, row) ==
    IF row.pk = None THEN Append(rows, [row EXCEPT !.pk = Len(rows) + 1])
    ELSE [rows EXCEPT ![row.pk] = row]


(***************************************************************************)
(* Submitted data.                                                         *)
(***************************************************************************)
Only(type_name, value) ==
    [k \in BasicTypes |-> IF k = type_name THEN value ELSE ""]

AllFilled(anchor) ==
    [k \in BasicTypes |-> IF k = "anchor" THEN anchor ELSE "v"]

\* the basic fields of a submission: none, one, or all of them filled (a
\* client resubmitting stale values), the anchor with or without a "#"
BasicInputs ==
    {Only(t, "v") : t \in BasicTypes}
        \cup {Only("anchor", ""), Only("anchor", "#top")}
        \cup {AllFilled("v"), AllFilled("#top")}

MkSub(url_type, site, content_object, b, url, url_grouper) ==
    [ url_type |-> url_type, site |-> site, content_object |-> content_object,
      manual_url |-> b["manual_url"], relative_path |-> b["relative_path"],
      anchor |-> b["anchor"], mailto |-> b["mailto"], phone |-> b["phone"],
      url |-> url, url_grouper |-> url_grouper ]

\* the submissions to UrlForm: a basic url_type with every combination of
\* basic fields above and a stale content_object, a content type with every
\* site and primary key, and a url_type that is no choice or is not submitted
UrlSubmissions ==
    { MkSub(t, 1, "1", b, None, "") : t \in BasicTypes, b \in BasicInputs }
    \cup
    { MkSub(t, s, c, b, None, "") :
        t \in ContentTypeIds, s \in Sites \cup {None},
        c \in {"", "1", "2", "x"}, b \in {Only("anchor", ""), AllFilled("v")} }
    \cup
    { MkSub(t, 1, c, Only("phone", "v"), None, "") :
        t \in {"bogus", Missing}, c \in {"", "1"} }

\* smaller sets, for the specifications with several forms or requests
ConcurrentSubmissions ==
    { MkSub(t, s, c, b, None, "") :
        t \in {"relative_path", "1"}, s \in {1}, c \in {"", "1"},
        b \in {Only("relative_path", "v")} }

FormsUrlSubmissions ==
    { MkSub(t, s, c, b, None, "") :
        t \in {"relative_path", "1", Missing}, s \in Sites, c \in {"1", "x"},
        b \in {Only("relative_path", "v")} }

OverrideSubmissions ==
    { MkSub(t, s, c, b, u, "") :
        t \in {"relative_path", "1", Missing}, s \in Sites,
        c \in {"1", "x"}, b \in {Only("relative_path", "v")},
        u \in 0..MaxUrls }

LinkSubmissions ==
    { MkSub(Missing, None, "", Only("anchor", ""), None, g) :
        g \in {"", "x", "1", "2", "9"} }

(***************************************************************************)
(* The requests.                                                           *)
(***************************************************************************)
Init ==
    /\ urls = <<>>
    /\ overrides = <<>>
    /\ groupers = 0
    /\ pc = [p \in Procs |-> "idle"]
    /\ form = [p \in Procs |-> NoForm]

\* requests in flight that may still insert a row of the model
InFlightNew(model) ==
    Cardinality({q \in Procs : pc[q] = "cleaned" /\ form[q].instance.model = model
                               /\ form[q].instance.pk = None})

Table(kind) == IF kind = "UrlOverrideForm" THEN overrides ELSE urls

\* how many rows of each table the model lets the requests create
Capacity(kind) == IF kind = "UrlOverrideForm" THEN MaxUrls - 1 ELSE MaxUrls

ModelOf(kind) == IF kind = "UrlOverrideForm" THEN "UrlOverride" ELSE "Url"

\* the form a request builds from the submitted data and the instance, after
\* is_valid()
FormFor(kind, pk, sub) ==
    LET instance == IF pk = None THEN NewInstance(ModelOf(kind))
                    ELSE Table(kind)[pk]
    IN  UrlForm_full_clean(kind, instance, sub, urls)

\* a request binds a UrlForm or UrlOverrideForm to the submitted data and to a
\* new instance (pk = None) or to the saved row pk, and calls is_valid()
UrlFormSubmit(p, kind, pk, sub) ==
    /\ pc[p] = "idle"
    /\ pk \in 0..Len(Table(kind))
    /\ pk = None =>
          /\ Len(Table(kind)) + InFlightNew(ModelOf(kind)) < Capacity(kind)
          /\ groupers + InFlightNew("Url") < MaxUrls + 1
    /\ form' = [form EXCEPT ![p] = FormFor(kind, pk, sub)]
    /\ pc' = [pc EXCEPT ![p] = "cleaned"]
    /\ UNCHANGED <<urls, overrides, groupers>>

\* SaveAllowed with the uniqueness check of clean() repeated against the rows
SaveAllowedUnique(f, rows) ==
    /\ IsValid(f)
    /\ ~(/\ f.data.content_object.kind = "instance"
         /\ \E i \in 1..Len(rows) :
                /\ rows[i].content_type = f.data.content_object.obj.content_type
                /\ rows[i].object_id = f.data.content_object.obj.pk
                /\ rows[i].url_grouper # f.instance.url_grouper)

\* super().save(commit=False) raises ValueError for a form with errors; save
\* makes no other check and reads no row
SaveAllowed(f, rows) == IsValid(f)

\* form.save(commit=commit) of a valid UrlForm or UrlOverrideForm
UrlFormSave(p, commit) ==
    /\ pc[p] = "cleaned"
    /\ form[p].kind \in {"UrlForm", "UrlOverrideForm"}
    /\ SaveAllowed(form[p], urls)
    /\ LET url == SavedInstance(form[p], groupers + 1)
           saved == IF commit /\ url.pk = None
                    THEN [url EXCEPT !.pk = Len(Table(form[p].kind)) + 1]
                    ELSE url
       IN  /\ groupers' = IF NeedsGrouper(form[p].instance) THEN groupers + 1
                          ELSE groupers
           /\ urls' = IF commit /\ url.model = "Url" THEN SaveRow(urls, url)
                      ELSE urls
           /\ overrides' = IF commit /\ url.model = "UrlOverride"
                           THEN SaveRow(overrides, url)
                           ELSE overrides
           /\ form' = [form EXCEPT ![p].instance = saved]
    /\ pc' = [pc EXCEPT ![p] = "saved"]

\* a request binds an HtmlLinkForm to the submitted data and calls is_valid()
HtmlLinkFormSubmit(p, sub) ==
    /\ pc[p] = "idle"
    /\ form' = [form EXCEPT ![p] = HtmlLinkForm_full_clean(sub, groupers)]
    /\ pc' = [pc EXCEPT ![p] = "cleaned"]
    /\ UNCHANGED <<urls, overrides, groupers>>

\* the request ends: the saved instance is returned, the form is rendered
\* again with its errors, or the exception leaves the view
Respond(p) ==
    /\ \/ pc[p] = "saved"
       \/ pc[p] = "cleaned" /\ (~IsValid(form[p]) \/ form[p].kind = "HtmlLinkForm")
    /\ pc' = [pc EXCEPT ![p] = "idle"]
    /\ form' = [form EXCEPT ![p] = NoForm]
    /\ UNCHANGED <<urls, overrides, groupers>>

\* concurrent requests to UrlForm
Next ==
    \/ \E p \in Procs, pk \in 0..MaxUrls, sub \in ConcurrentSubmissions :
           UrlFormSubmit(p, "UrlForm", pk, sub)
    \/ \E p \in Procs, commit \in BOOLEAN : UrlFormSave(p, commit)
    \/ \E p \in Procs : Respond(p)

Spec == Init /\ [][Next]_vars

\* the one worker of a server that processes its requests one at a time
Worker == "p1"

\* UrlForm, one request at a time
NextUrl ==
    \/ \E pk \in 0..MaxUrls, sub \in UrlSubmissions :
           UrlFormSubmit(Worker, "UrlForm", pk, sub)
    \/ \E commit \in BOOLEAN : UrlFormSave(Worker, commit)
    \/ Respond(Worker)

SpecUrl == Init /\ [][NextUrl]_vars

\* the three forms, one request at a time
NextForms ==
    \/ \E pk \in 0..MaxUrls, sub \in FormsUrlSubmissions :
           UrlFormSubmit(Worker, "UrlForm", pk, sub)
    \/ \E pk \in 0..MaxUrls, sub \in OverrideSubmissions :
           UrlFormSubmit(Worker, "UrlOverrideForm", pk, sub)
    \/ \E sub \in LinkSubmissions : HtmlLinkFormSubmit(Worker, sub)
    \/ \E commit \in BOOLEAN : UrlFormSave(Worker, commit)
    \/ Respond(Worker)

SpecForms == Init /\ [][NextForms]_vars

(***************************************************************************)
(* Properties.                                                             *)
(***************************************************************************)
Idle == \A p \in Procs : pc[p] = "idle"

HasPair(row) == row.content_type # NoContentType

SamePair(a, b) ==
    HasPair(a) /\ a.content_type = b.content_type /\ a.object_id = b.object_id

ExactlyOneSource(row) ==
    \/ /\ Cardinality({t \in BasicTypes : row[t] # ""}) = 1
       /\ row.content_type = NoContentType
       /\ row.object_id = None
    \/ /\ row.content_type # NoContentType
       /\ row.object_id # None
       /\ \A t \in BasicTypes : row[t] = ""

\* C1: after any sequence of UrlForm saves every saved Url has exactly one value
\* source: one non-empty basic field and no generic reference, or the generic
\* reference and five empty basic fields.
C1_ExactlyOneSource == \A i \in 1..Len(urls) : ExactlyOneSource(urls[i])

\* C1 witness: an edit that switched a Url from a basic kind to a content
\* object, or back, has been saved.
C1_SwitchSaved ==
    \E p \in Procs :
        /\ pc[p] = "saved"
        /\ form[p].instance.pk # None
        /\ urls[form[p].instance.pk] = form[p].instance
        /\ \/ form[p].initial \in BasicTypes /\ HasPair(form[p].instance)
           \/ form[p].initial \in ContentTypeIds /\ ~HasPair(form[p].instance)

\* the pair a cleaned form resolved is referenced by a Url of another grouper
BoundElsewhere(f) ==
    /\ f.data.content_object.kind = "instance"
    /\ \E i \in 1..Len(urls) :
          /\ urls[i].content_type = f.data.content_object.obj.content_type
          /\ urls[i].object_id = f.data.content_object.obj.pk
          /\ urls[i].url_grouper # f.instance.url_grouper

\* C2: with one request at a time, a UrlForm whose resolved pair is referenced by
\* a Url of a different grouper carries "Url with this object already exists" on
\* content_object and cannot be saved; no two Urls of different groupers
\* reference the same pair.
C2_UniquePairPerGrouper ==
    /\ \A p \in Procs :
          (pc[p] = "cleaned" /\ form[p].kind = "UrlForm" /\ BoundElsewhere(form[p]))
              => /\ Err("content_object", MsgExists) \in form[p].errors
                 /\ ~ENABLED UrlFormSave(p, TRUE)
                 /\ ~ENABLED UrlFormSave(p, FALSE)
    /\ \A i, j \in 1..Len(urls) :
          SamePair(urls[i], urls[j]) => urls[i].url_grouper = urls[j].url_grouper

\* C2 witness: a submission binding a pair of another grouper's Url was rejected.
C2_ConflictRejected ==
    \E p \in Procs :
        /\ pc[p] = "cleaned"
        /\ form[p].kind = "UrlForm"
        /\ BoundElsewhere(form[p])
        /\ Err("content_object", MsgExists) \in form[p].errors

\* C3: editing a Url that references a content object and resubmitting the same
\* pair, no other Url referencing it, gives no uniqueness error.
C3_OwnGrouperExcluded ==
    \A p \in Procs :
        ( /\ pc[p] = "cleaned"
          /\ form[p].kind = "UrlForm"
          /\ form[p].instance.pk # None
          /\ form[p].data.content_object.kind = "instance"
          /\ form[p].instance.content_type = form[p].data.content_object.obj.content_type
          /\ form[p].instance.object_id = form[p].data.content_object.obj.pk
          /\ \A i \in 1..Len(urls) :
                i # form[p].instance.pk => ~SamePair(form[p].instance, urls[i]) )
        => Err("content_object", MsgExists) \notin form[p].errors

\* C4: a basic url_type whose field is empty gives "Field is required" on that
\* field, a non-basic url_type with an empty content_object gives it on
\* content_object, and neither submission can be saved.
C4_SelectedSourceRequired ==
    \A p \in Procs :
        (pc[p] = "cleaned" /\ form[p].kind = "UrlForm") =>
            LET f == form[p]
                sub == form[p].sub
            IN  /\ (sub.url_type \in BasicTypes /\ sub[sub.url_type] = "")
                      => /\ Err(sub.url_type, MsgRequired) \in f.errors
                         /\ ~ENABLED UrlFormSave(p, TRUE)
                         /\ ~ENABLED UrlFormSave(p, FALSE)
                /\ (sub.url_type \notin BasicTypes /\ sub.content_object = "")
                      => /\ Err("content_object", MsgRequired) \in f.errors
                         /\ ~ENABLED UrlFormSave(p, TRUE)
                         /\ ~ENABLED UrlFormSave(p, FALSE)

\* C4 witness: a form was rejected with "Field is required" on a basic field.
C4_RequiredRejected ==
    \E p \in Procs, t \in BasicTypes :
        /\ pc[p] = "cleaned"
        /\ form[p].sub.url_type = t
        /\ form[p].sub[t] = ""
        /\ Err(t, MsgRequired) \in form[p].errors

\* an object of the content type that the site scoping of its model lets through
VisibleOn(o, content_type, site) ==
    /\ o.content_type = content_type
    /\ SiteScoping(content_type) \in {"on_site", "site"} => o.site = site

\* the objects a submission's content_object names on its site
Named(sub) ==
    {o \in Objects :
        /\ VisibleOn(o, sub.url_type, IF sub.site \in Sites THEN sub.site ELSE None)
        /\ IsInt(sub.content_object)
        /\ o.pk = ToInt(sub.content_object)}

\* C5: for a content-object url_type the primary key is resolved among the objects
\* visible on the site; when there is none, the form carries an error on
\* content_object naming the content-type id and the site, and content_object is
\* not replaced by an instance.
C5_LookupScopedToSite ==
    \A p \in Procs :
        ( /\ pc[p] = "cleaned"
          /\ form[p].kind = "UrlForm"
          /\ form[p].sub.url_type \in ContentTypeIds
          /\ form[p].sub.content_object # "" ) =>
            LET f == form[p]
                sub == form[p].sub
            IN  IF Named(sub) # {}
                THEN /\ f.data.content_object.kind = "instance"
                     /\ f.data.content_object.obj \in Named(sub)
                ELSE /\ [field |-> "content_object", msg |-> MsgNoObject,
                         ct |-> sub.url_type,
                         site |-> IF sub.site \in Sites THEN sub.site ELSE None]
                            \in f.errors
                     /\ f.data.content_object.kind # "instance"

\* C6: a UrlOverrideForm with a valid original url is rejected with the site
\* error when its site is the original's, gets no such error when it differs,
\* and no override is saved with the site of its original.
C6_OverrideSiteDiffers ==
    \A p \in Procs :
        ( /\ pc[p] \in {"cleaned", "saved"}
          /\ form[p].kind = "UrlOverrideForm"
          /\ form[p].sub.url \in 1..Len(urls) ) =>
            LET f == form[p]
                sub == form[p].sub
            IN  IF sub.site = urls[sub.url].site
                THEN /\ Err("site", MsgSite) \in f.errors
                     /\ pc[p] = "cleaned"
                     /\ ~ENABLED UrlFormSave(p, TRUE)
                ELSE Err("site", MsgSite) \notin f.errors

\* C7: save creates a grouper only when the Url has none: the returned instance
\* then has the newly created grouper, with commit or without; a Url that has
\* a grouper keeps it and no grouper is created; every saved Url has a grouper
\* and no save changes the grouper of a saved Url.
C7_GrouperCreatedOnlyWhenAbsent ==
    [][ /\ \A p \in Procs :
             (pc[p] = "cleaned" /\ pc'[p] = "saved" /\ form[p].kind = "UrlForm") =>
                IF form[p].instance.url_grouper = None
                THEN /\ groupers' = groupers + 1
                     /\ form'[p].instance.url_grouper = groupers'
                ELSE /\ groupers' = groupers
                     /\ form'[p].instance.url_grouper = form[p].instance.url_grouper
        /\ \A i \in 1..Len(urls) : urls'[i].url_grouper = urls[i].url_grouper
        /\ \A i \in 1..Len(urls') : urls'[i].url_grouper \in 1..groupers'
      ]_vars

\* C7 witness: save(commit=False) returned an unsaved Url carrying the newly
\* created grouper, while saved Urls (which kept theirs) exist.
C7_UnsavedGotGrouper ==
    \E p \in Procs :
        /\ pc[p] = "saved"
        /\ form[p].kind = "UrlForm"
        /\ form[p].instance.pk = None
        /\ form[p].instance.url_grouper = groupers
        /\ Len(urls) > 0

\* C8: HtmlLinkForm.clean gives "Invalid value" for a url_grouper that is no
\* integer, "Url does not exist" for an integer that is no UrlGrouper id, and
\* the UrlGrouper itself, without error, for the id of one.
C8_GrouperResolved ==
    \A p \in Procs :
        (pc[p] = "cleaned" /\ form[p].kind = "HtmlLinkForm") =>
            LET f == form[p]
                value == f.data.url_grouper
            IN  /\ f.exc = NoException
                /\ (value.kind = "str" /\ ~IsInt(value.str))
                      => \E e \in f.errors : e.msg = MsgInvalid
                /\ (value.kind = "str" /\ IsInt(value.str))
                      => /\ ToInt(value.str) \notin 1..groupers
                         /\ \E e \in f.errors : e.msg = MsgNoGrouper
                /\ value.kind = "instance"
                      => value.id \in 1..groupers /\ f.errors = {}

\* C9: validation of any of the three forms ends without an exception, with
\* every error on a field of the form, and a form with errors writes nothing.
C9_NoUnhandledException ==
    \A p \in Procs :
        pc[p] = "cleaned" =>
            /\ form[p].exc = NoException
            /\ \A e \in form[p].errors : e.field \in FormFields(form[p].kind)
            /\ form[p].errors # {} => ~ENABLED UrlFormSave(p, TRUE)

\* C10: save makes no uniqueness check of its own, so every UrlForm that passed
\* clean() can be saved whatever other requests have saved since.
C10_SaveDoesNotRecheck ==
    \A p \in Procs :
        (pc[p] = "cleaned" /\ form[p].kind = "UrlForm" /\ IsValid(form[p]))
            => ENABLED UrlFormSave(p, TRUE)

\* C10 witness: two Urls of different groupers reference the same pair.
C10_DuplicatePairSaved ==
    \E i, j \in 1..Len(urls) :
        SamePair(urls[i], urls[j]) /\ urls[i].url_grouper # urls[j].url_grouper

====
